---- MODULE Spec2Model ----
(***************************************************************************)
(* Model of outlook_mcp_server.py: the query pipeline                      *)
(* (get_emails_from_folder, get_appointments_from_calendar), the two       *)
(* numbered caches (email_cache, calendar_cache) and the MCP tools that    *)
(* fill and read them.                                                     *)
(*                                                                         *)
(* Text is a sequence of one-character strings; a timestamp is a number of *)
(* seconds; the Outlook store is a fixed set of folders and items, and     *)
(* each failure of the store (connection, Restrict, GetItemFromID) is      *)
(* a nondeterministic outcome of the call that may meet it.                *)
(***************************************************************************)
EXTENDS Integers, Sequences, FiniteSets, TLC

VARIABLES
    email_cache,      \* the module-level dict email_cache
    calendar_cache,   \* the module-level dict calendar_cache
    email_listed,     \* history: a list/search call has reached get_emails_from_folder
    email_returned,   \* history: what the most recent get_emails_from_folder returned
    calendar_listed,  \* history: a list/search call has reached get_appointments_from_calendar
    calendar_returned,\* history: what the most recent get_appointments_from_calendar returned
    last,             \* history: the most recent tool call and what it did
    running           \* the requests in progress when the host overlaps tool calls

vars == <<email_cache, calendar_cache, email_listed, email_returned,
          calendar_listed, calendar_returned, last, running>>

-----------------------------------------------------------------------------
(* Bounds. *)

\* by-number tools are called with ordinals 0..MaxOrd
MaxOrd == 4
\* datetime.datetime.now() returns Now0 .. Now0 + MaxClock
MaxClock == 1

-----------------------------------------------------------------------------
(* Program constants. *)

MAX_DAYS == 30
MAX_CALENDAR_DAYS == 60

-----------------------------------------------------------------------------
(* Python values. *)

\* None in a timestamp attribute (a falsy value)
None == 0 - 1
\* a timestamp attribute the COM object does not have (hasattr is False)
Missing == 0 - 2
\* None or "" where a string is expected: both are falsy
NoText == <<>>
\* None in the place of a formatted timestamp
NoTime == <<None>>
\* Python truthiness of an optional string
Truthy(s) == s # <<>>

Day == 24 * 60 * 60
Hour == 60 * 60
Minute == 60

\* datetime.strftime("%Y-%m-%d %H:%M:%S"): the date and the three clock fields
strftime(t) == <<t \div Day, (t % Day) \div Hour, (t % Hour) \div Minute, t % Minute>>

\* str.lower() on one character
LowerChar(c) ==
    CASE c = "A" -> "a"
      [] c = "B" -> "b"
      [] c = "C" -> "c"
      [] c = "O" -> "o"
      [] c = "E" -> "e"
      [] c = "R" -> "r"
      [] c = "S" -> "s"
      [] c = "T" -> "t"
      [] c = "U" -> "u"
      [] c = "W" -> "w"
      [] c = "Y" -> "y"
      [] OTHER -> c

\* str.lower()
lower(s) == [i \in 1..Len(s) |-> LowerChar(s[i])]

\* Python's `sub in s` on strings
In(sub, s) ==
    \E off \in 0..(Len(s) - Len(sub)) : SubSeq(s, off + 1, off + Len(sub)) = sub

\* str.find(sep): the first offset at which sep occurs in s, or -1
Find(s, sep) ==
    LET hits == {off \in 0..(Len(s) - Len(sep)) : SubSeq(s, off + 1, off + Len(sep)) = sep}
    IN IF hits = {} THEN -1 ELSE CHOOSE off \in hits : \A o \in hits : off <= o

\* str.split(sep)
RECURSIVE split(_, _)
split(s, sep) ==
    LET off == Find(s, sep)
    IN IF off = -1 THEN <<s>>
       ELSE <<SubSeq(s, 1, off)>> \o split(SubSeq(s, off + Len(sep) + 1, Len(s)), sep)

\* str.strip()
RECURSIVE strip(_)
strip(s) ==
    IF s = <<>> THEN s
    ELSE IF Head(s) = " " THEN strip(Tail(s))
    ELSE IF s[Len(s)] = " " THEN strip(SubSeq(s, 1, Len(s) - 1))
    ELSE s

\* the literal separator " OR "
OrSep == <<" ", "O", "R", " ">>

\* [f(x) for x in seq]
Map(seq, f(_)) == [i \in 1..Len(seq) |-> f(seq[i])]

\* concatenation of a sequence of sequences
RECURSIVE Flatten(_)
Flatten(seqs) == IF seqs = <<>> THEN <<>> ELSE Head(seqs) \o Flatten(Tail(seqs))

-----------------------------------------------------------------------------
(* The store: what the Outlook namespace holds. *)

Today0 == 100 * Day
\* the first value of the clock: the last second of a day
Now0 == Today0 + Day - 1

\* recipients: one with an address, one whose address is the empty string and one
\* whose Address cannot be read (reading it raises)
WithAddress == [Name |-> <<"n">>, Address |-> <<"a", "@", "b">>, Lacks |-> {}]
EmptyAddress == [Name |-> <<"m">>, Address |-> NoText, Lacks |-> {}]
NoAddress == [Name |-> <<"k">>, Address |-> NoText, Lacks |-> {"Address"}]

\* f"{recipient.Name} <{recipient.Address}>", and f"{recipient.Name}" when that raises
Descriptor(recipient) ==
    IF "Address" \in recipient.Lacks THEN recipient.Name
    ELSE recipient.Name \o <<" ", "<">> \o recipient.Address \o <<">">>

\* mail items, in the order the store holds them before Sort. Lacks: the attributes
\* the COM object does not have (hasattr is False, reading one raises)
Mail1 == [EntryID |-> "m1", ReceivedTime |-> Now0 - 10, ConversationID |-> 1,
          Subject |-> <<"A", "b">>, SenderName |-> <<"c">>, Body |-> <<"x">>,
          Recipients |-> <<WithAddress, EmptyAddress, NoAddress>>,
          UnRead |-> TRUE, Lacks |-> {}]
Mail2 == [EntryID |-> "m2", ReceivedTime |-> Now0 - Day, ConversationID |-> 2,
          Subject |-> <<"x">>, SenderName |-> <<"B">>, Body |-> <<"x">>,
          Recipients |-> <<>>,
          UnRead |-> FALSE, Lacks |-> {"UnRead"}]
Mail3 == [EntryID |-> "m3", ReceivedTime |-> Now0 - Day - 1, ConversationID |-> 3,
          Subject |-> <<"x">>, SenderName |-> <<"x">>, Body |-> <<"a", " ", "c">>,
          Recipients |-> <<>>,
          UnRead |-> FALSE, Lacks |-> {}]
Mail4 == [EntryID |-> "m4", ReceivedTime |-> Now0 + 5, ConversationID |-> 4,
          Subject |-> <<"x">>, SenderName |-> <<"x">>, Body |-> <<"x">>,
          Recipients |-> <<>>,
          UnRead |-> FALSE, Lacks |-> {"ConversationID"}]
Mail5 == [EntryID |-> "m5", ReceivedTime |-> None, ConversationID |-> 5,
          Subject |-> <<"b">>, SenderName |-> <<"x">>, Body |-> <<"x">>,
          Recipients |-> <<>>,
          UnRead |-> FALSE, Lacks |-> {}]
Mail6 == [EntryID |-> "m6", ReceivedTime |-> Now0 - Hour, ConversationID |-> 6,
          Subject |-> <<"b">>, SenderName |-> <<"x">>, Body |-> <<"x">>,
          Recipients |-> <<NoAddress, WithAddress>>,
          UnRead |-> FALSE, Lacks |-> {}]
Mail7 == [EntryID |-> "m7", ReceivedTime |-> Now0 - 20, ConversationID |-> 7,
          Subject |-> <<"c">>, SenderName |-> <<"x">>, Body |-> <<"x">>,
          Recipients |-> <<>>,
          UnRead |-> FALSE, Lacks |-> {"SenderEmailAddress"}]

\* the folders of the store: a mailbox with the inbox and a folder "Old", then two
\* more top-level folders, "Old" and "work". Path tells folders of one name apart
InboxFolder == [Path |-> "Mailbox/Inbox", Name |-> <<"I", "n", "b", "o", "x">>,
                Items |-> <<Mail3, Mail5, Mail1, Mail7, Mail4, Mail2>>]
WorkFolder == [Path |-> "Mailbox/Inbox/Work", Name |-> <<"W", "o", "r", "k">>,
               Items |-> <<Mail6>>]
OldFolder == [Path |-> "Mailbox/Old", Name |-> <<"O", "l", "d">>, Items |-> <<>>]
RootFolder == [Path |-> "Mailbox", Name |-> <<"M", "a", "i", "l", "b", "o", "x">>,
               Items |-> <<>>]
OldRoot == [Path |-> "Old", Name |-> <<"O", "l", "d">>, Items |-> <<>>]
WorkRoot == [Path |-> "work", Name |-> <<"w", "o", "r", "k">>, Items |-> <<>>]

\* inbox.Folders, namespace.Folders, and folder.Folders of each top-level folder
InboxFolders == <<WorkFolder>>
NamespaceFolders == <<RootFolder, OldRoot, WorkRoot>>
SubFolders(folder) == IF folder = RootFolder THEN <<InboxFolder, OldFolder>> ELSE <<>>

AllFolders == {InboxFolder, WorkFolder, OldFolder, RootFolder, OldRoot, WorkRoot}

AllMail == {Mail1, Mail2, Mail3, Mail4, Mail5, Mail6, Mail7}

\* namespace.GetDefaultFolder(6)
DefaultInbox == InboxFolder

-----------------------------------------------------------------------------
(* Helper functions of the server. *)

\* `for folder in seq: if folder.Name.lower() == folder_name.lower(): return folder`
RECURSIVE FirstMatch(_, _)
FirstMatch(seq, name) ==
    IF seq = <<>> THEN <<>>
    ELSE IF lower(Head(seq).Name) = lower(name) THEN <<Head(seq)>>
    ELSE FirstMatch(Tail(seq), name)

\* the loop over namespace.Folders: each root folder, then its subfolders
RECURSIVE RootScan(_, _)
RootScan(roots, name) ==
    IF roots = <<>> THEN <<>>
    ELSE IF lower(Head(roots).Name) = lower(name) THEN <<Head(roots)>>
    ELSE LET sub == FirstMatch(SubFolders(Head(roots)), name)
         IN IF sub # <<>> THEN sub ELSE RootScan(Tail(roots), name)

\* the lookup with the top-level folders all tried before any of their subfolders
get_folder_by_name_roots_first(folder_name) ==
    LET inbox == FirstMatch(InboxFolders, folder_name)
        root == FirstMatch(NamespaceFolders, folder_name)
    IN IF inbox # <<>> THEN inbox
       ELSE IF root # <<>> THEN root
       ELSE RootScan(NamespaceFolders, folder_name)

\* get_folder_by_name: <<folder>> when found, <<>> for None
get_folder_by_name(folder_name) ==
    LET inbox == FirstMatch(InboxFolders, folder_name)
    IN IF inbox # <<>> THEN inbox ELSE RootScan(NamespaceFolders, folder_name)

\* the attributes format_email reads without a hasattr test
EmailRequired ==
    {"Recipients", "EntryID", "Subject", "SenderName", "SenderEmailAddress",
     "ReceivedTime", "Body", "Attachments"}

\* format_email: <<record>>, or <<>> when it raises (the item lacks an attribute
\* that is read without a hasattr test)
format_email(mail_item) ==
    IF mail_item.Lacks \cap EmailRequired # {} THEN <<>>
    ELSE <<[id              |-> mail_item.EntryID,
            conversation_id |-> IF "ConversationID" \notin mail_item.Lacks
                                THEN mail_item.ConversationID ELSE None,
            subject         |-> mail_item.Subject,
            sender          |-> mail_item.SenderName,
            received_time   |-> IF mail_item.ReceivedTime # None
                                THEN strftime(mail_item.ReceivedTime) ELSE NoTime,
            recipients      |-> [i \in 1..Len(mail_item.Recipients) |->
                                    Descriptor(mail_item.Recipients[i])],
            body            |-> mail_item.Body,
            unread          |-> IF "UnRead" \notin mail_item.Lacks
                                THEN mail_item.UnRead ELSE FALSE]>>

\* clear_email_cache without its `global` statement: the module's dict is not emptied
clear_email_cache_local(cache) == cache

\* clear_email_cache: the value email_cache holds after it
clear_email_cache(cache) == <<>>

\* clear_calendar_cache without its `global` statement
clear_calendar_cache_local(cache) == cache

\* clear_calendar_cache: the value calendar_cache holds after it
clear_calendar_cache(cache) == <<>>

\* Items.Sort(property, descending): insertion of item into a sorted sequence
RECURSIVE InsertSorted(_, _, _, _)
InsertSorted(item, sorted, Key(_), descending) ==
    IF sorted = <<>> THEN <<item>>
    ELSE IF (descending /\ Key(item) > Key(Head(sorted)))
            \/ (~descending /\ Key(item) < Key(Head(sorted)))
         THEN <<item>> \o sorted
         ELSE <<Head(sorted)>> \o InsertSorted(item, Tail(sorted), Key, descending)

RECURSIVE Sort(_, _, _)
Sort(items, Key(_), descending) ==
    IF items = <<>> THEN <<>>
    ELSE InsertSorted(items[Len(items)], Sort(SubSeq(items, 1, Len(items) - 1), Key, descending),
                      Key, descending)

ReceivedTimeOf(item) == item.ReceivedTime

\* the terms with the empty ones left out
StrippedTermsNonEmpty(search_term) ==
    SelectSeq(Map(split(search_term, OrSep), strip), LAMBDA term : term # <<>>)

\* search_term.split(" OR ") with each term stripped
StrippedTerms(search_term) == Map(split(search_term, OrSep), strip)

\* the store's evaluation of "field LIKE '%term%'": a case-insensitive substring test
Like(term, field) == In(lower(term), lower(field))

\* Items.Restrict with the @SQL filter built from the terms
Restrict(items, terms) ==
    SelectSeq(items, LAMBDA item :
        \E i \in 1..Len(terms) :
            \/ Like(terms[i], item.Subject)
            \/ Like(terms[i], item.SenderName)
            \/ Like(terms[i], item.Body))

\* the manual search filter of get_emails_from_folder: found_match
EmailFoundMatch(item, search_term) ==
    LET search_terms == Map(StrippedTerms(search_term), lower)
    IN \E i \in 1..Len(search_terms) :
          \/ In(search_terms[i], lower(item.Subject))
          \/ In(search_terms[i], lower(item.SenderName))
          \/ In(search_terms[i], lower(item.Body))

\* the loop body with `received_time <= threshold_date`
EmailStepStrict(item, threshold_date, search_term, same) ==
    IF item.ReceivedTime = Missing \/ item.ReceivedTime = None THEN <<>>
    ELSE IF item.ReceivedTime <= threshold_date THEN <<>>
    ELSE IF Truthy(search_term) /\ same /\ ~EmailFoundMatch(item, search_term) THEN <<>>
    ELSE format_email(item)

\* one iteration of the loop over folder_items: <<record>> or <<>> (continue).
\* same is the outcome of `folder_items == folder.Items`
EmailStep(item, threshold_date, search_term, same) ==
    IF item.ReceivedTime = Missing \/ item.ReceivedTime = None THEN <<>>
    ELSE IF item.ReceivedTime < threshold_date THEN <<>>
    ELSE IF Truthy(search_term) /\ same /\ ~EmailFoundMatch(item, search_term) THEN <<>>
    ELSE format_email(item)

\* the items a loop over items reaches before the store raises: all of them when
\* the store does not fail (abort is None), none when obtaining or sorting the
\* collection fails (abort is 0), the first abort of them when the iteration fails
\* on the item after those
Reached(items, abort) ==
    IF abort = None \/ abort >= Len(items) THEN items ELSE SubSeq(items, 1, abort)

\* get_emails_from_folder with a second test that skips items received after now
get_emails_from_folder_until_now(folder, days, search_term, at, restrict_ok, identical, abort) ==
    LET threshold_date == at - days * Day
        sorted == Sort(folder.Items, ReceivedTimeOf, TRUE)
        restricted == Truthy(search_term) /\ restrict_ok
        folder_items == IF restricted
                        THEN Restrict(sorted, StrippedTerms(search_term))
                        ELSE sorted
        same == ~restricted /\ identical
        reached == Reached(folder_items, abort)
    IN Flatten([i \in 1..Len(reached) |->
                   IF reached[i].ReceivedTime > at THEN <<>>
                   ELSE EmailStep(reached[i], threshold_date, search_term, same)])

\* get_emails_from_folder with Sort("[ReceivedTime]", False)
get_emails_from_folder_ascending(folder, days, search_term, at, restrict_ok, identical, abort) ==
    LET threshold_date == at - days * Day
        sorted == Sort(folder.Items, ReceivedTimeOf, FALSE)
        restricted == Truthy(search_term) /\ restrict_ok
        folder_items == IF restricted
                        THEN Restrict(sorted, StrippedTerms(search_term))
                        ELSE sorted
        same == ~restricted /\ identical
        reached == Reached(folder_items, abort)
    IN Flatten([i \in 1..Len(reached) |->
                   EmailStep(reached[i], threshold_date, search_term, same)])

\* get_emails_from_folder. restrict_ok: the store accepts the Restrict filter;
\* identical: the store hands out the same Items object on every folder.Items;
\* abort: where the store raises outside the per-item try (the outer except
\* returns emails_list as it is then)
get_emails_from_folder(folder, days, search_term, at, restrict_ok, identical, abort) ==
    LET threshold_date == at - days * Day
        sorted == Sort(folder.Items, ReceivedTimeOf, TRUE)
        restricted == Truthy(search_term) /\ restrict_ok
        folder_items == IF restricted
                        THEN Restrict(sorted, StrippedTerms(search_term))
                        ELSE sorted
        same == ~restricted /\ identical
        reached == Reached(folder_items, abort)
    IN Flatten([i \in 1..Len(reached) |->
                   EmailStep(reached[i], threshold_date, search_term, same)])

\* the caching loop with enumerate(emails): ordinals start at 0
CacheAllFromZero(cache, records) ==
    [i \in (DOMAIN cache) \cup (0..(Len(records) - 1)) |->
        IF i \in 0..(Len(records) - 1) THEN records[i + 1] ELSE cache[i]]

\* the loop `for i, email in enumerate(emails, 1): email_cache[i] = email`
CacheAll(cache, records) ==
    [i \in (DOMAIN cache) \cup (1..Len(records)) |->
        IF i \in 1..Len(records) THEN records[i] ELSE cache[i]]

-----------------------------------------------------------------------------
(* The calendar folder. *)

Appt1 == [EntryID |-> "a1", Start |-> Today0, End |-> Today0 + Hour,
          Subject |-> <<"b">>, Location |-> <<"x">>, Body |-> <<"x">>,
          Recipients |-> <<WithAddress, EmptyAddress, NoAddress>>]
Appt2 == [EntryID |-> "a2", Start |-> Today0 - 1, End |-> Today0 + Hour,
          Subject |-> <<"b">>, Location |-> <<"x">>, Body |-> <<"x">>,
          Recipients |-> <<>>]
Appt3 == [EntryID |-> "a3", Start |-> Today0 + 2 * Day - 1, End |-> Today0 + 2 * Day,
          Subject |-> <<"x">>, Location |-> <<"C">>, Body |-> <<"x">>,
          Recipients |-> <<>>]
Appt4 == [EntryID |-> "a4", Start |-> Today0 + 2 * Day, End |-> Today0 + 2 * Day + Hour,
          Subject |-> <<"x">>, Location |-> <<"x">>, Body |-> <<"a">>,
          Recipients |-> <<>>]
Appt5 == [EntryID |-> "a5", Start |-> None, End |-> None,
          Subject |-> <<"B">>, Location |-> <<"x">>, Body |-> <<"x">>,
          Recipients |-> <<>>]
Appt6 == [EntryID |-> "a6", Start |-> Missing, End |-> Missing,
          Subject |-> <<"b">>, Location |-> <<"x">>, Body |-> <<"x">>,
          Recipients |-> <<>>]

\* namespace.GetDefaultFolder(9)
DefaultCalendar == [Name |-> <<"C", "a", "l">>,
                    Items |-> <<Appt4, Appt6, Appt1, Appt5, Appt3, Appt2>>]

AllAppointments == {Appt1, Appt2, Appt3, Appt4, Appt5, Appt6}

StartOf(item) == item.Start

\* format_appointment: <<record>>, or <<>> when it raises (the item has no Start or End)
format_appointment(appointment) ==
    IF appointment.Start = Missing \/ appointment.End = Missing THEN <<>>
    ELSE <<[id         |-> appointment.EntryID,
            subject    |-> appointment.Subject,
            start_time |-> IF appointment.Start # None
                           THEN strftime(appointment.Start) ELSE NoTime,
            end_time   |-> IF appointment.End # None
                           THEN strftime(appointment.End) ELSE NoTime,
            location   |-> appointment.Location,
            attendees  |-> [i \in 1..Len(appointment.Recipients) |->
                               Descriptor(appointment.Recipients[i])],
            body       |-> appointment.Body]>>

\* the manual filter without .lower() on the item's fields
AppointmentFoundMatchCased(item, search_term) ==
    LET search_terms == Map(StrippedTerms(search_term), lower)
    IN \E i \in 1..Len(search_terms) :
          \/ In(search_terms[i], item.Subject)
          \/ In(search_terms[i], item.Location)
          \/ In(search_terms[i], item.Body)

\* the manual search filter of get_appointments_from_calendar: found_match
AppointmentFoundMatch(item, search_term) ==
    LET search_terms == Map(StrippedTerms(search_term), lower)
    IN \E i \in 1..Len(search_terms) :
          \/ In(search_terms[i], lower(item.Subject))
          \/ In(search_terms[i], lower(item.Location))
          \/ In(search_terms[i], lower(item.Body))

\* now.replace(hour=0, minute=0, second=0, microsecond=0)
StartDate(at) == (at \div Day) * Day

\* (start_date + timedelta(days=days)).replace(hour=23, minute=59, second=59, microsecond=0)
EndDate(at, days) ==
    ((StartDate(at) + days * Day) \div Day) * Day + 23 * Hour + 59 * Minute + 59

\* the date range test of get_appointments_from_calendar, reached when Start is truthy
InDateRange(item_start, at, days) ==
    StartDate(at) <= item_start /\ item_start <= EndDate(at, days)

\* one iteration of the loop over calendar_items: <<record>> or <<>> (continue)
AppointmentStep(item, at, days, search_term) ==
    IF item.Start # Missing /\ item.Start # None /\ ~InDateRange(item.Start, at, days)
    THEN <<>>
    ELSE IF Truthy(search_term) /\ ~AppointmentFoundMatch(item, search_term) THEN <<>>
    ELSE format_appointment(item)

\* get_appointments_from_calendar without the try around the loop body: the first
\* item that format_appointment fails on ends the loop
get_appointments_from_calendar_aborting(calendar, days, search_term, at, abort) ==
    LET calendar_items == Sort(calendar.Items, StartOf, FALSE)
        reached == Reached(calendar_items, abort)
        failing == {i \in 1..Len(reached) : format_appointment(reached[i]) = <<>>}
        stop == IF failing = {} THEN Len(reached) + 1
                ELSE CHOOSE i \in failing : \A j \in failing : i <= j
    IN Flatten([i \in 1..(stop - 1) |->
                   AppointmentStep(reached[i], at, days, search_term)])

\* get_appointments_from_calendar. abort: where the store raises outside the
\* per-item try (the outer except returns appointments_list as it is then)
get_appointments_from_calendar(calendar, days, search_term, at, abort) ==
    LET calendar_items == Sort(calendar.Items, StartOf, FALSE)
        reached == Reached(calendar_items, abort)
    IN Flatten([i \in 1..Len(reached) |->
                   AppointmentStep(reached[i], at, days, search_term)])

-----------------------------------------------------------------------------
(* datetime.strptime(text, '%Y-%m-%d %H:%M'). *)

Digits == <<"0", "1", "2", "3", "4", "5", "6", "7", "8", "9">>
IsDigit(c) == \E d \in 1..Len(Digits) : Digits[d] = c
DigitValue(c) == (CHOOSE d \in 1..Len(Digits) : Digits[d] = c) - 1

\* the length of the run of digits text has from position pos on, at most width long
RECURSIVE DigitRun(_, _, _)
DigitRun(text, pos, width) ==
    IF width = 0 \/ pos > Len(text) \/ ~IsDigit(text[pos]) THEN 0
    ELSE 1 + DigitRun(text, pos + 1, width - 1)

\* the number written by text[pos .. pos + len - 1]
RECURSIVE Number(_, _, _)
Number(text, pos, len) ==
    IF len = 0 THEN 0
    ELSE 10 * Number(text, pos, len - 1) + DigitValue(text[pos + len - 1])

DaysInMonth(y, m) ==
    IF m \in {4, 6, 9, 11} THEN 30
    ELSE IF m = 2 THEN (IF y % 4 = 0 /\ (y % 100 # 0 \/ y % 400 = 0) THEN 29 ELSE 28)
    ELSE 31

\* strptime: <<year, month, day, hour, minute>>, or <<>> for ValueError
strptime(text) ==
    LET ylen == DigitRun(text, 1, 4)
        p1 == 1 + ylen
        mlen == DigitRun(text, p1 + 1, 2)
        p2 == p1 + 1 + mlen
        dlen == DigitRun(text, p2 + 1, 2)
        p3 == p2 + 1 + dlen
        hlen == DigitRun(text, p3 + 1, 2)
        p4 == p3 + 1 + hlen
        nlen == DigitRun(text, p4 + 1, 2)
        y == Number(text, 1, ylen)
        m == Number(text, p1 + 1, mlen)
        d == Number(text, p2 + 1, dlen)
        h == Number(text, p3 + 1, hlen)
        n == Number(text, p4 + 1, nlen)
    IN IF /\ ylen = 4 /\ mlen >= 1 /\ dlen >= 1 /\ hlen >= 1 /\ nlen >= 1
          /\ Len(text) = p4 + nlen
          /\ text[p1] = "-" /\ text[p2] = "-" /\ text[p3] = " " /\ text[p4] = ":"
          /\ m \in 1..12 /\ d \in 1..DaysInMonth(y, m) /\ h \in 0..23 /\ n \in 0..59
       THEN <<y, m, d, h, n>>
       ELSE <<>>

-----------------------------------------------------------------------------
(* Inputs of the tools, and what the store does during a call. *)

DaysInputs == {0, 1, MAX_DAYS, MAX_DAYS + 1}
CalendarDaysInputs == {0, 1, MAX_CALENDAR_DAYS, MAX_CALENDAR_DAYS + 1}
FolderNames == {NoText, <<"w", "o", "r", "k">>, <<"o", "l", "d">>, <<"n", "o">>}
\* "q OR ": the term after the separator is empty
EmptyTail == <<"q", " ", "O", "R", " ">>
SearchTerms == {NoText, <<"A", " ", "O", "R", " ", "c">>, <<"q">>, EmptyTail}
Ordinals == 0..MaxOrd

\* the values datetime.datetime.now() returns
Clock == Now0..(Now0 + MaxClock)

\* "2024-01-01 09:00", "2024-01-01 09:30", "not-a-date"
Time0900 == <<"2", "0", "2", "4", "-", "0", "1", "-", "0", "1", " ", "0", "9", ":", "0", "0">>
Time0930 == <<"2", "0", "2", "4", "-", "0", "1", "-", "0", "1", " ", "0", "9", ":", "3", "0">>
NotADate == <<"n", "o", "t", "-", "a", "-", "d", "a", "t", "e">>
TimeTexts == {Time0900, Time0930, NotADate}

\* what the store does during one email listing: whether Dispatch succeeds, whether
\* Restrict accepts the filter, and whether folder.Items is the same object each time
\* where the store raises during a query: nowhere, on folder.Items or Sort, or
\* in the iteration after two items
Aborts == {None, 0, 2}

EmailStoreOutcomes ==
    {[connect_ok |-> FALSE, restrict_ok |-> FALSE, identical |-> FALSE, abort |-> None],
     [connect_ok |-> TRUE, restrict_ok |-> TRUE, identical |-> FALSE, abort |-> None],
     [connect_ok |-> TRUE, restrict_ok |-> FALSE, identical |-> TRUE, abort |-> None],
     [connect_ok |-> TRUE, restrict_ok |-> FALSE, identical |-> FALSE, abort |-> None],
     [connect_ok |-> TRUE, restrict_ok |-> FALSE, identical |-> FALSE, abort |-> 0],
     [connect_ok |-> TRUE, restrict_ok |-> FALSE, identical |-> FALSE, abort |-> 2]}
StoreDown == [connect_ok |-> FALSE, restrict_ok |-> FALSE, identical |-> FALSE,
              abort |-> None]

\* what the store does during one by-number call: whether Dispatch succeeds and
\* whether GetItemFromID still finds the item
FetchOutcomes ==
    {[connect_ok |-> FALSE, present |-> FALSE],
     [connect_ok |-> TRUE, present |-> FALSE],
     [connect_ok |-> TRUE, present |-> TRUE]}
FetchDown == [connect_ok |-> FALSE, present |-> FALSE]

\* the values of save_as_draft: left out, a bool, or a string
Omitted == [kind |-> "omitted", flag |-> FALSE, text |-> NoText]
Flag(b) == [kind |-> "bool", flag |-> b, text |-> NoText]
Token(s) == [kind |-> "str", flag |-> FALSE, text |-> s]

\* ['true', '1', 'yes']
DraftTokens == {<<"t", "r", "u", "e">>, <<"1">>, <<"y", "e", "s">>}

DraftArgs ==
    {Omitted, Flag(TRUE), Flag(FALSE)}
    \cup {Token(s) : s \in DraftTokens \cup {<<"Y", "E", "S">>, <<"n", "o">>}}

ValidDays(days, max) == ~(days < 1 \/ days > max)

StoreUp == [connect_ok |-> TRUE, restrict_ok |-> FALSE, identical |-> FALSE,
            abort |-> None]

\* a folder name that leads to no item: no folder of that name, or one without items
NothingToRead(folder_name) ==
    LET found == get_folder_by_name(folder_name)
    IN found = <<>> \/ found[1].Items = <<>>

\* The calls of list_recent_emails. An argument or a store outcome the call returns
\* without reading is given one value only, as is the clock when the folder leads
\* to no item; the store raises during a query of the inbox at the first value of
\* the clock.
ListEmailCalls ==
    {c \in [days : DaysInputs, folder_name : FolderNames, at : Clock,
            store : {s \in EmailStoreOutcomes : ~s.restrict_ok /\ ~s.identical}] :
        /\ ~ValidDays(c.days, MAX_DAYS) =>
              c.folder_name = NoText /\ c.store = StoreDown /\ c.at = Now0
        /\ ~c.store.connect_ok => c.folder_name = NoText /\ c.at = Now0
        /\ c.store.abort # None => c.folder_name = NoText /\ c.at = Now0
        /\ (Truthy(c.folder_name) /\ NothingToRead(c.folder_name)) => c.at = Now0}

\* The calls of search_emails, likewise; the expression with an empty term is
\* searched for in the inbox at the first value of the clock
SearchEmailCalls ==
    {c \in [search_term : SearchTerms, days : DaysInputs, folder_name : FolderNames,
            at : Clock, store : EmailStoreOutcomes] :
        /\ ~Truthy(c.search_term) => c.days = 1
        /\ (~Truthy(c.search_term) \/ ~ValidDays(c.days, MAX_DAYS)) =>
              c.folder_name = NoText /\ c.store = StoreDown /\ c.at = Now0
        /\ ~c.store.connect_ok => c.folder_name = NoText /\ c.at = Now0
        /\ c.store.abort # None => c.folder_name = NoText /\ c.at = Now0
        /\ (Truthy(c.folder_name) /\ NothingToRead(c.folder_name)) =>
              c.store = StoreUp /\ c.at = Now0
        /\ c.search_term = EmptyTail =>
              c.folder_name = NoText /\ c.at = Now0 /\ c.store.abort = None}

\* The calls of the two calendar listing tools, likewise; list_calendar_appointments
\* takes those without a search term
CalendarListingCalls ==
    {c \in [search_term : SearchTerms, days : CalendarDaysInputs, at : Clock,
            connect_ok : BOOLEAN, abort : Aborts] :
        /\ ~ValidDays(c.days, MAX_CALENDAR_DAYS) => ~c.connect_ok /\ c.at = Now0
        /\ ~c.connect_ok => c.at = Now0 /\ c.abort = None
        /\ c.abort # None => c.at = Now0
        /\ c.search_term = EmptyTail => c.at = Now0 /\ c.abort = None}
ListCalendarCalls == {c \in CalendarListingCalls : ~Truthy(c.search_term)}
SearchCalendarCalls ==
    {c \in CalendarListingCalls : ~Truthy(c.search_term) => c.days = 1 /\ ~c.connect_ok}

\* Every result of the two queries over the inputs the model draws, evaluated once
EmailResults ==
    [folder \in AllFolders, days \in DaysInputs, search_term \in SearchTerms,
     at \in Clock, restrict_ok \in BOOLEAN, identical \in BOOLEAN, abort \in Aborts |->
        get_emails_from_folder(folder, days, search_term, at, restrict_ok, identical,
                               abort)]
CalendarResults ==
    [days \in CalendarDaysInputs, search_term \in SearchTerms, at \in Clock,
     abort \in Aborts |->
        get_appointments_from_calendar(DefaultCalendar, days, search_term, at, abort)]

\* strptime of every time text the model draws, evaluated once
ParsedTimes == [text \in TimeTexts |-> strptime(text)]

\* The calls of create_calendar_appointment, likewise
CreateCalls ==
    {c \in [start_time : TimeTexts, end_time : TimeTexts,
            connect_ok : BOOLEAN, save_ok : BOOLEAN] :
        /\ ~c.connect_ok => ~c.save_ok
        /\ (ParsedTimes[c.start_time] = <<>> \/ ParsedTimes[c.end_time] = <<>>) => ~c.save_ok}

-----------------------------------------------------------------------------
(* History records. *)

\* what a tool call was given and did: its response, whether it called
\* connect_to_outlook, the size of the listing it replaced, where the store raised
\* during its query, whether its ordinal was
\* one of the listing that the call just before it replaced, the EntryID it passed
\* to GetItemFromID, the item it showed or replied to, whether it called Save or
\* Send on the message, and how far it got with a new appointment
Call(op, resp) ==
    [op |-> op, resp |-> resp, ord |-> 0, days |-> 0, at |-> 0, term |-> NoText,
     folder_name |-> NoText, folder |-> "none", pushdown |-> "none", same |-> FALSE, connected |-> FALSE,
     replaced |-> 0, stale |-> FALSE, abort |-> None,
     fetched |-> "none", target |-> "none", message |-> <<>>,
     save_as_draft |-> Omitted,
     start_time |-> NoText, end_time |-> NoText, appointment |-> "none"]

\* the tool calls the host runs at once
Requests == 1..2
Other(r) == 3 - r

\* a request slot that runs no tool call. For a listing call: its arguments, the local
\* emails, the loop index i, the number of other listing calls that ran while it did
\* and, as long as there is none, the value email_cache had when the call began. For get_email_by_number: its
\* ordinal, the value of email_cache at its latest read, whether one listing call
\* that met no other was running at that read, and the listings before and after
\* that call
Idle ==
    [op |-> "none", pc |-> "idle", resp |-> "none", days |-> 0, folder_name |-> NoText,
     term |-> NoText, at |-> 0, store |-> StoreDown, ord |-> 0, emails |-> <<>>,
     i |-> 0, prev |-> <<>>,
     others |-> 0, seen |-> <<>>, overlap |-> FALSE, old |-> <<>>, new |-> <<>>,
     target |-> "none"]

-----------------------------------------------------------------------------
(* The state after the module is loaded. *)

Init ==
    /\ email_cache = <<>>
    /\ calendar_cache = <<>>
    /\ email_listed = FALSE
    /\ email_returned = <<>>
    /\ calendar_listed = FALSE
    /\ calendar_returned = <<>>
    /\ last = Call("none", "none")
    /\ running = [r \in Requests |-> Idle]

-----------------------------------------------------------------------------
(* Email tools. at: what datetime.datetime.now() returns during the call. *)

\* list_recent_emails and search_emails from connect_to_outlook on
EmailListing(op, days, folder_name, search_term, at, store) ==
    LET call == [Call(op, "none") EXCEPT !.days = days, !.term = search_term,
                                          !.folder_name = folder_name,
                                          !.connected = TRUE]
    IN IF ~store.connect_ok
       THEN /\ last' = [call EXCEPT !.resp = "StoreError"]
            /\ UNCHANGED <<email_cache, email_listed, email_returned>>
       ELSE LET found == IF Truthy(folder_name) THEN get_folder_by_name(folder_name)
                         ELSE <<DefaultInbox>>
            IN IF found = <<>>
               THEN /\ last' = [call EXCEPT !.resp = "FolderNotFound"]
                    /\ UNCHANGED <<email_cache, email_listed, email_returned>>
               ELSE /\ email_returned' =
                         EmailResults[found[1], days, search_term, at,
                                      store.restrict_ok, store.identical, store.abort]
                    /\ email_cache' = CacheAll(clear_email_cache(email_cache), email_returned')
                    /\ email_listed' = TRUE
                    /\ last' = [call EXCEPT
                         !.resp = IF email_returned' = <<>> THEN "NoneFound" ELSE "Listing",
                         !.at = at, !.folder = found[1].Path,
                         !.replaced = Cardinality(DOMAIN email_cache),
                         !.abort = store.abort,
                         !.pushdown = IF ~Truthy(search_term) THEN "none"
                                      ELSE IF store.restrict_ok THEN "accepted"
                                      ELSE "rejected",
                         !.same = Truthy(search_term) /\ ~store.restrict_ok
                                  /\ store.identical]

list_recent_emails(days, folder_name, at, store) ==
    /\ IF days < 1 \/ days > MAX_DAYS
       THEN /\ last' = [Call("list_recent_emails", "ValidationError") EXCEPT !.days = days]
            /\ UNCHANGED <<email_cache, email_listed, email_returned>>
       ELSE EmailListing("list_recent_emails", days, folder_name, NoText, at, store)
    /\ UNCHANGED <<calendar_cache, calendar_listed, calendar_returned, running>>

search_emails(search_term, days, folder_name, at, store) ==
    /\ IF ~Truthy(search_term)
       THEN /\ last' = [Call("search_emails", "ValidationError")
                          EXCEPT !.days = days, !.term = search_term]
            /\ UNCHANGED <<email_cache, email_listed, email_returned>>
       ELSE IF days < 1 \/ days > MAX_DAYS
       THEN /\ last' = [Call("search_emails", "ValidationError")
                          EXCEPT !.days = days, !.term = search_term]
            /\ UNCHANGED <<email_cache, email_listed, email_returned>>
       ELSE EmailListing("search_emails", days, folder_name, search_term, at, store)
    /\ UNCHANGED <<calendar_cache, calendar_listed, calendar_returned, running>>

\* namespace.GetItemFromID(entry_id): <<item>> when the store still holds the item
GetItemFromID(entry_id, present) ==
    IF present THEN <<CHOOSE m \in AllMail : m.EntryID = entry_id>> ELSE <<>>

get_email_by_number(email_number, store) ==
    LET call == [Call("get_email_by_number", "none") EXCEPT !.ord = email_number]
    IN
    /\ last' =
         IF email_cache = <<>> THEN [call EXCEPT !.resp = "EmptyListing"]
         ELSE IF email_number \notin DOMAIN email_cache
         THEN [call EXCEPT !.resp = "OrdinalNotFound"]
         ELSE IF ~store.connect_ok
         THEN [call EXCEPT !.resp = "StoreError", !.connected = TRUE]
         ELSE LET email_data == email_cache[email_number]
                  email == GetItemFromID(email_data.id, store.present)
              IN IF email = <<>>
                 THEN [call EXCEPT !.resp = "StoreError", !.connected = TRUE,
                                   !.fetched = email_data.id]
                 ELSE [call EXCEPT !.resp = "Details", !.connected = TRUE,
                                   !.fetched = email_data.id, !.target = email_data.id]
    /\ UNCHANGED <<email_cache, calendar_cache, email_listed, email_returned,
                   calendar_listed, calendar_returned, running>>

\* save_as_draft when the caller leaves it out: `save_as_draft: bool = True`
Bound(save_as_draft) ==
    IF save_as_draft = Omitted THEN Flag(TRUE) ELSE save_as_draft

\* save_as_draft with a string compared as it is written
AsDraftAsWritten(save_as_draft) ==
    IF Bound(save_as_draft).kind = "bool" THEN Bound(save_as_draft).flag
    ELSE Bound(save_as_draft).text \in DraftTokens

\* save_as_draft after `save_as_draft.lower() in ['true', '1', 'yes']` for a string
AsDraft(save_as_draft) ==
    IF Bound(save_as_draft).kind = "bool" THEN Bound(save_as_draft).flag
    ELSE lower(Bound(save_as_draft).text) \in DraftTokens

\* the reply with connect_to_outlook() called ahead of the two tests of email_cache
reply_to_email_by_number_connecting(email_number, save_as_draft, store) ==
    LET call == [Call("reply_to_email_by_number", "none")
                   EXCEPT !.ord = email_number, !.connected = TRUE]
    IN
    /\ last' =
         IF ~store.connect_ok THEN [call EXCEPT !.resp = "StoreError"]
         ELSE IF email_cache = <<>> THEN [call EXCEPT !.resp = "EmptyListing"]
         ELSE IF email_number \notin DOMAIN email_cache
         THEN [call EXCEPT !.resp = "OrdinalNotFound"]
         ELSE LET email == GetItemFromID(email_cache[email_number]["id"], store.present)
              IN IF email = <<>>
                 THEN [call EXCEPT !.resp = "StoreError",
                                   !.fetched = email_cache[email_number]["id"]]
                 ELSE [call EXCEPT
                         !.resp = IF AsDraft(save_as_draft) THEN "ReplySaved" ELSE "ReplySent",
                         !.fetched = email_cache[email_number]["id"],
                         !.target = email[1].EntryID,
                         !.save_as_draft = save_as_draft,
                         !.message = IF AsDraft(save_as_draft) THEN <<"Save">>
                                     ELSE <<"Send">>]
    /\ UNCHANGED <<email_cache, calendar_cache, email_listed, email_returned,
                   calendar_listed, calendar_returned, running>>

reply_to_email_by_number(email_number, save_as_draft, store) ==
    LET call == [Call("reply_to_email_by_number", "none")
                   EXCEPT !.ord = email_number,
                          !.stale = /\ last.op \in {"list_recent_emails", "search_emails"}
                                    /\ last.resp \in {"Listing", "NoneFound"}
                                    /\ email_number \in 1..last.replaced]
    IN
    /\ last' =
         IF email_cache = <<>> THEN [call EXCEPT !.resp = "EmptyListing"]
         ELSE IF email_number \notin DOMAIN email_cache
         THEN [call EXCEPT !.resp = "OrdinalNotFound"]
         ELSE IF ~store.connect_ok
         THEN [call EXCEPT !.resp = "StoreError", !.connected = TRUE]
         ELSE LET email_id == email_cache[email_number]["id"]
                  email == GetItemFromID(email_id, store.present)
              IN IF email = <<>>
                 THEN [call EXCEPT !.resp = "StoreError", !.connected = TRUE,
                                   !.fetched = email_id]
                 ELSE [call EXCEPT
                         !.resp = IF AsDraft(save_as_draft) THEN "ReplySaved" ELSE "ReplySent",
                         !.connected = TRUE, !.fetched = email_id,
                         !.target = email[1].EntryID,
                         !.save_as_draft = save_as_draft,
                         !.message = IF AsDraft(save_as_draft) THEN <<"Save">>
                                     ELSE <<"Send">>]
    /\ UNCHANGED <<email_cache, calendar_cache, email_listed, email_returned,
                   calendar_listed, calendar_returned, running>>

\* list_folders: the names of the top-level folders and of two levels below them
list_folders(connect_ok) ==
    LET call == [Call("list_folders", "none") EXCEPT !.connected = TRUE]
    IN
    /\ last' = IF ~connect_ok THEN [call EXCEPT !.resp = "StoreError"]
               ELSE [call EXCEPT !.resp = "Folders"]
    /\ UNCHANGED <<email_cache, calendar_cache, email_listed, email_returned,
                   calendar_listed, calendar_returned, running>>

\* compose_email without its try: the failure of connect_to_outlook() goes up to
\* the caller
compose_email_unguarded(save_as_draft, connect_ok) ==
    LET call == [Call("compose_email", "none") EXCEPT !.connected = TRUE]
    IN
    /\ last' =
         IF ~connect_ok THEN [call EXCEPT !.resp = "Raised"]
         ELSE [call EXCEPT
                 !.resp = IF AsDraft(save_as_draft) THEN "EmailSaved" ELSE "EmailSent",
                 !.save_as_draft = save_as_draft,
                 !.message = IF AsDraft(save_as_draft) THEN <<"Save">> ELSE <<"Send">>]
    /\ UNCHANGED <<email_cache, calendar_cache, email_listed, email_returned,
                   calendar_listed, calendar_returned, running>>

\* compose_email: the methods called on the new message are recorded in order
compose_email(save_as_draft, connect_ok) ==
    LET call == [Call("compose_email", "none") EXCEPT !.connected = TRUE]
    IN
    /\ last' =
         IF ~connect_ok THEN [call EXCEPT !.resp = "StoreError"]
         ELSE [call EXCEPT
                 !.resp = IF AsDraft(save_as_draft) THEN "EmailSaved" ELSE "EmailSent",
                 !.save_as_draft = save_as_draft,
                 !.message = IF AsDraft(save_as_draft) THEN <<"Save">> ELSE <<"Send">>]
    /\ UNCHANGED <<email_cache, calendar_cache, email_listed, email_returned,
                   calendar_listed, calendar_returned, running>>

-----------------------------------------------------------------------------
(* Calendar tools. *)

\* list_calendar_appointments and search_calendar_appointments from
\* connect_to_outlook on
\* the calendar listing with clear_calendar_cache() called ahead of connect_to_outlook()
CalendarListingClearingFirst(op, days, search_term, at, connect_ok, abort) ==
    LET call == [Call(op, "none") EXCEPT !.days = days, !.term = search_term,
                                          !.connected = TRUE]
    IN IF ~connect_ok
       THEN /\ last' = [call EXCEPT !.resp = "StoreError"]
            /\ calendar_cache' = clear_calendar_cache(calendar_cache)
            /\ UNCHANGED <<calendar_listed, calendar_returned>>
       ELSE /\ calendar_returned' =
                 CalendarResults[days, search_term, at, abort]
            /\ calendar_cache' =
                 CacheAll(clear_calendar_cache(calendar_cache), calendar_returned')
            /\ calendar_listed' = TRUE
            /\ last' = [call EXCEPT
                          !.resp = IF calendar_returned' = <<>> THEN "NoneFound" ELSE "Listing",
                          !.at = at, !.abort = abort,
                          !.replaced = Cardinality(DOMAIN calendar_cache)]

CalendarListing(op, days, search_term, at, connect_ok, abort) ==
    LET call == [Call(op, "none") EXCEPT !.days = days, !.term = search_term,
                                          !.connected = TRUE]
    IN IF ~connect_ok
       THEN /\ last' = [call EXCEPT !.resp = "StoreError"]
            /\ UNCHANGED <<calendar_cache, calendar_listed, calendar_returned>>
       ELSE /\ calendar_returned' =
                 CalendarResults[days, search_term, at, abort]
            /\ calendar_cache' =
                 CacheAll(clear_calendar_cache(calendar_cache), calendar_returned')
            /\ calendar_listed' = TRUE
            /\ last' = [call EXCEPT
                          !.resp = IF calendar_returned' = <<>> THEN "NoneFound" ELSE "Listing",
                          !.at = at, !.abort = abort,
                          !.replaced = Cardinality(DOMAIN calendar_cache)]

\* list_calendar_appointments with both caches cleared
list_calendar_appointments_clearing_both(days, at, connect_ok, abort) ==
    /\ IF days < 1 \/ days > MAX_CALENDAR_DAYS
       THEN /\ last' = [Call("list_calendar_appointments", "ValidationError")
                          EXCEPT !.days = days]
            /\ UNCHANGED <<calendar_cache, calendar_listed, calendar_returned>>
       ELSE CalendarListing("list_calendar_appointments", days, NoText, at, connect_ok,
                            abort)
    /\ email_cache' = IF last'.resp \in {"Listing", "NoneFound"}
                      THEN clear_email_cache(email_cache) ELSE email_cache
    /\ UNCHANGED <<email_listed, email_returned, running>>

list_calendar_appointments(days, at, connect_ok, abort) ==
    /\ IF days < 1 \/ days > MAX_CALENDAR_DAYS
       THEN /\ last' = [Call("list_calendar_appointments", "ValidationError")
                          EXCEPT !.days = days]
            /\ UNCHANGED <<calendar_cache, calendar_listed, calendar_returned>>
       ELSE CalendarListing("list_calendar_appointments", days, NoText, at, connect_ok,
                            abort)
    /\ UNCHANGED <<email_cache, email_listed, email_returned, running>>

search_calendar_appointments(search_term, days, at, connect_ok, abort) ==
    /\ IF ~Truthy(search_term)
       THEN /\ last' = [Call("search_calendar_appointments", "ValidationError")
                          EXCEPT !.days = days, !.term = search_term]
            /\ UNCHANGED <<calendar_cache, calendar_listed, calendar_returned>>
       ELSE IF days < 1 \/ days > MAX_CALENDAR_DAYS
       THEN /\ last' = [Call("search_calendar_appointments", "ValidationError")
                          EXCEPT !.days = days, !.term = search_term]
            /\ UNCHANGED <<calendar_cache, calendar_listed, calendar_returned>>
       ELSE CalendarListing("search_calendar_appointments", days, search_term, at,
                            connect_ok, abort)
    /\ UNCHANGED <<email_cache, email_listed, email_returned, running>>

get_appointment_by_number(appointment_number) ==
    LET call == [Call("get_appointment_by_number", "none") EXCEPT !.ord = appointment_number]
    IN
    /\ last' =
         IF calendar_cache = <<>> THEN [call EXCEPT !.resp = "EmptyListing"]
         ELSE IF appointment_number \notin DOMAIN calendar_cache
         THEN [call EXCEPT !.resp = "OrdinalNotFound"]
         ELSE [call EXCEPT !.resp = "Details",
                           !.target = calendar_cache[appointment_number].id]
    /\ UNCHANGED <<email_cache, calendar_cache, email_listed, email_returned,
                   calendar_listed, calendar_returned, running>>

\* create_calendar_appointment with the item saved as soon as Start is set
create_calendar_appointment_saving_start(start_time, end_time, connect_ok, save_ok) ==
    LET call == [Call("create_calendar_appointment", "none")
                   EXCEPT !.start_time = start_time, !.end_time = end_time,
                          !.connected = TRUE]
    IN
    /\ last' =
         IF ~connect_ok THEN [call EXCEPT !.resp = "StoreError"]
         ELSE IF ParsedTimes[start_time] = <<>>
         THEN [call EXCEPT !.resp = "ValidationError", !.appointment = "created"]
         ELSE IF ParsedTimes[end_time] = <<>>
         THEN [call EXCEPT !.resp = "ValidationError", !.appointment = "saved"]
         ELSE IF ~save_ok THEN [call EXCEPT !.resp = "StoreError", !.appointment = "created"]
         ELSE [call EXCEPT !.resp = "Created", !.appointment = "saved"]
    /\ UNCHANGED <<email_cache, calendar_cache, email_listed, email_returned,
                   calendar_listed, calendar_returned, running>>

\* create_calendar_appointment. save_ok: appointment.Save() succeeds
create_calendar_appointment(start_time, end_time, connect_ok, save_ok) ==
    LET call == [Call("create_calendar_appointment", "none")
                   EXCEPT !.start_time = start_time, !.end_time = end_time,
                          !.connected = TRUE]
    IN
    /\ last' =
         IF ~connect_ok THEN [call EXCEPT !.resp = "StoreError"]
         ELSE IF ParsedTimes[start_time] = <<>> \/ ParsedTimes[end_time] = <<>>
         THEN [call EXCEPT !.resp = "ValidationError", !.appointment = "created"]
         ELSE IF ~save_ok THEN [call EXCEPT !.resp = "StoreError", !.appointment = "created"]
         ELSE [call EXCEPT !.resp = "Created", !.appointment = "saved"]
    /\ UNCHANGED <<email_cache, calendar_cache, email_listed, email_returned,
                   calendar_listed, calendar_returned, running>>

-----------------------------------------------------------------------------

Next ==
    \/ \E c \in ListEmailCalls :
          list_recent_emails(c.days, c.folder_name, c.at, c.store)
    \/ \E c \in SearchEmailCalls :
          search_emails(c.search_term, c.days, c.folder_name, c.at, c.store)
    \/ \E email_number \in Ordinals, store \in FetchOutcomes :
          get_email_by_number(email_number, store)
    \/ \E email_number \in Ordinals, save_as_draft \in DraftArgs, store \in FetchOutcomes :
          /\ (email_number \notin DOMAIN email_cache \/ ~store.present) =>
                save_as_draft = Omitted
          /\ reply_to_email_by_number(email_number, save_as_draft, store)
    \/ \E save_as_draft \in DraftArgs, connect_ok \in BOOLEAN :
          /\ ~connect_ok => save_as_draft = Omitted
          /\ compose_email(save_as_draft, connect_ok)
    \/ \E connect_ok \in BOOLEAN : list_folders(connect_ok)
    \/ \E c \in ListCalendarCalls :
          list_calendar_appointments(c.days, c.at, c.connect_ok, c.abort)
    \/ \E c \in SearchCalendarCalls :
          search_calendar_appointments(c.search_term, c.days, c.at, c.connect_ok, c.abort)
    \/ \E appointment_number \in Ordinals :
          get_appointment_by_number(appointment_number)
    \/ \E c \in CreateCalls :
          create_calendar_appointment(c.start_time, c.end_time, c.connect_ok, c.save_ok)

Spec == Init /\ [][Next]_vars

-----------------------------------------------------------------------------
(* The email tools one statement at a time: what the handlers do to email_cache *)
(* when the host runs two tool calls at once. Nothing in the module serialises   *)
(* the tool functions: there is no lock around email_cache.                      *)

\* the call is between its first statement and its return
InFlight(slot) == slot.pc \in {"clear", "query", "cache"}

\* the folder of a listing call that passed the folder lookup
FolderOf(slot) ==
    IF Truthy(slot.folder_name) THEN get_folder_by_name(slot.folder_name)[1]
    ELSE DefaultInbox

\* `email_cache[len(email_cache) + 1] = email`: the key taken from the cache
CacheOneAppended(cache, i, email) ==
    [k \in (DOMAIN cache) \cup {Cardinality(DOMAIN cache) + 1} |->
        IF k = Cardinality(DOMAIN cache) + 1 THEN email ELSE cache[k]]

\* `email_cache[i] = email`
CacheOne(cache, i, email) ==
    [k \in (DOMAIN cache) \cup {i} |-> IF k = i THEN email ELSE cache[k]]

\* the calls the host overlaps: one value of the clock, the inbox, the store failing
\* at connect_to_outlook only; a listing of one day, a search that finds nothing
\* and a search the store filters
OverlapListCalls ==
    {c \in ListEmailCalls :
        c.at = Now0 /\ c.days <= 1 /\ c.folder_name = NoText /\ c.store.abort = None}
OverlapSearchCalls ==
    {c \in SearchEmailCalls :
        /\ c.at = Now0 /\ c.folder_name = NoText /\ c.store.abort = None
        /\ c.search_term # EmptyTail
        /\ c.days = (IF c.search_term = <<"q">> THEN 1 ELSE MAX_DAYS)
        /\ c.store.connect_ok => (c.store.restrict_ok <=> c.search_term # <<"q">>)}

\* list_recent_emails and search_emails up to clear_email_cache: validation was
\* passed; connect_to_outlook and the folder lookup
BeginListing(r, op, days, folder_name, search_term, at, store) ==
    LET call == [Idle EXCEPT !.op = op, !.days = days, !.folder_name = folder_name,
                             !.term = search_term, !.at = at, !.store = store]
        found == IF Truthy(folder_name) THEN get_folder_by_name(folder_name)
                 ELSE <<DefaultInbox>>
    IN IF ~store.connect_ok
       THEN running' = [running EXCEPT ![r] = [call EXCEPT !.pc = "done",
                                                           !.resp = "StoreError"]]
       ELSE IF found = <<>>
       THEN running' = [running EXCEPT ![r] = [call EXCEPT !.pc = "done",
                                                           !.resp = "FolderNotFound"]]
       ELSE running' =
              [running EXCEPT
                 ![r] = [call EXCEPT
                           !.pc = "clear",
                           !.prev = IF InFlight(running[Other(r)]) THEN <<>>
                                    ELSE email_cache,
                           !.others = IF InFlight(running[Other(r)]) THEN 1 ELSE 0],
                 ![Other(r)] = IF InFlight(@)
                               THEN [@ EXCEPT !.prev = <<>>,
                                              !.others = IF @ = 0 THEN 1 ELSE 2]
                               ELSE @]

BeginList(r, days, folder_name, at, store) ==
    /\ running[r].pc = "idle"
    /\ IF days < 1 \/ days > MAX_DAYS
       THEN running' = [running EXCEPT ![r] =
                [Idle EXCEPT !.op = "list_recent_emails", !.days = days,
                             !.pc = "done", !.resp = "ValidationError"]]
       ELSE BeginListing(r, "list_recent_emails", days, folder_name, NoText, at, store)
    /\ UNCHANGED <<email_cache, calendar_cache, email_listed, email_returned,
                   calendar_listed, calendar_returned, last>>

BeginSearch(r, search_term, days, folder_name, at, store) ==
    /\ running[r].pc = "idle"
    /\ IF ~Truthy(search_term) \/ days < 1 \/ days > MAX_DAYS
       THEN running' = [running EXCEPT ![r] =
                [Idle EXCEPT !.op = "search_emails", !.days = days, !.term = search_term,
                             !.pc = "done", !.resp = "ValidationError"]]
       ELSE BeginListing(r, "search_emails", days, folder_name, search_term, at, store)
    /\ UNCHANGED <<email_cache, calendar_cache, email_listed, email_returned,
                   calendar_listed, calendar_returned, last>>

\* the statement clear_email_cache()
Clear(r) ==
    /\ running[r].pc = "clear"
    /\ email_cache' = clear_email_cache(email_cache)
    /\ running' = [running EXCEPT ![r].pc = "query"]
    /\ UNCHANGED <<calendar_cache, email_listed, email_returned,
                   calendar_listed, calendar_returned, last>>

\* emails = get_emails_from_folder(...), and the return when emails is empty
Query(r) ==
    /\ running[r].pc = "query"
    /\ LET slot == running[r]
           emails == EmailResults[FolderOf(slot), slot.days, slot.term, slot.at,
                                  slot.store.restrict_ok, slot.store.identical,
                                  slot.store.abort]
       IN running' = [running EXCEPT ![r] =
              IF emails = <<>> THEN [slot EXCEPT !.pc = "done", !.resp = "NoneFound"]
              ELSE [slot EXCEPT !.pc = "cache", !.emails = emails, !.i = 1]]
    /\ UNCHANGED <<email_cache, calendar_cache, email_listed, email_returned,
                   calendar_listed, calendar_returned, last>>

\* one pass of `for i, email in enumerate(emails, 1): email_cache[i] = email`
CacheNext(r) ==
    /\ running[r].pc = "cache"
    /\ LET slot == running[r]
       IN /\ email_cache' = CacheOne(email_cache, slot.i, slot.emails[slot.i])
          /\ running' = [running EXCEPT ![r] =
                 IF slot.i = Len(slot.emails)
                 THEN [slot EXCEPT !.pc = "done", !.resp = "Listing"]
                 ELSE [slot EXCEPT !.i = slot.i + 1]]
    /\ UNCHANGED <<calendar_cache, email_listed, email_returned,
                   calendar_listed, calendar_returned, last>>

\* what a statement of get_email_by_number that reads email_cache finds there
Read(r, slot) ==
    LET other == running[Other(r)]
        writing == InFlight(other)
    IN [slot EXCEPT
          !.seen = email_cache,
          !.overlap = writing /\ other.others = 0,
          !.old = IF writing /\ other.others = 0 THEN other.prev ELSE <<>>,
          !.new = IF writing /\ other.others = 0
                  THEN CacheAll(<<>>, EmailResults[FolderOf(other), other.days,
                                                   other.term, other.at,
                                                   other.store.restrict_ok,
                                                   other.store.identical,
                                                   other.store.abort])
                  ELSE <<>>]

\* get_email_by_number up to `if not email_cache:`
TestEmpty(r, email_number) ==
    /\ running[r].pc = "idle"
    /\ LET slot == Read(r, [Idle EXCEPT !.op = "get_email_by_number",
                                        !.ord = email_number])
       IN running' = [running EXCEPT ![r] =
              IF email_cache = <<>> THEN [slot EXCEPT !.pc = "done", !.resp = "EmptyListing"]
              ELSE [slot EXCEPT !.pc = "member"]]
    /\ UNCHANGED <<email_cache, calendar_cache, email_listed, email_returned,
                   calendar_listed, calendar_returned, last>>

\* `if email_number not in email_cache:`
TestMember(r) ==
    /\ running[r].pc = "member"
    /\ LET slot == Read(r, running[r])
       IN running' = [running EXCEPT ![r] =
              IF slot.ord \notin DOMAIN email_cache
              THEN [slot EXCEPT !.pc = "done", !.resp = "OrdinalNotFound"]
              ELSE [slot EXCEPT !.pc = "load"]]
    /\ UNCHANGED <<email_cache, calendar_cache, email_listed, email_returned,
                   calendar_listed, calendar_returned, last>>

\* `email_data = email_cache[email_number]` (a KeyError goes to the handler's except)
\* and the rest of get_email_by_number
Load(r, store) ==
    /\ running[r].pc = "load"
    /\ LET slot == Read(r, running[r])
       IN running' = [running EXCEPT ![r] =
              IF slot.ord \notin DOMAIN email_cache
              THEN [slot EXCEPT !.pc = "done", !.resp = "KeyError"]
              ELSE IF ~store.connect_ok \/ ~store.present
              THEN [slot EXCEPT !.pc = "done", !.resp = "StoreError"]
              ELSE [slot EXCEPT !.pc = "done", !.resp = "Details",
                                !.target = email_cache[slot.ord].id]]
    /\ UNCHANGED <<email_cache, calendar_cache, email_listed, email_returned,
                   calendar_listed, calendar_returned, last>>

\* the tool call returns its response
Return(r) ==
    /\ running[r].pc = "done"
    /\ running' = [running EXCEPT ![r] = Idle]
    /\ UNCHANGED <<email_cache, calendar_cache, email_listed, email_returned,
                   calendar_listed, calendar_returned, last>>

NextInterleaved ==
    \/ \E r \in Requests, c \in OverlapListCalls :
          BeginList(r, c.days, c.folder_name, c.at, c.store)
    \/ \E r \in Requests, c \in OverlapSearchCalls :
          BeginSearch(r, c.search_term, c.days, c.folder_name, c.at, c.store)
    \/ \E r \in Requests : Clear(r)
    \/ \E r \in Requests : Query(r)
    \/ \E r \in Requests : CacheNext(r)
    \/ \E r \in Requests, email_number \in 1..MaxOrd : TestEmpty(r, email_number)
    \/ \E r \in Requests : TestMember(r)
    \/ \E r \in Requests, store \in FetchOutcomes : Load(r, store)
    \/ \E r \in Requests : Return(r)

SpecInterleaved == Init /\ [][NextInterleaved]_vars

-----------------------------------------------------------------------------
(* Properties of the server, and the states that show each one at work. *)

EmailListingOps == {"list_recent_emails", "search_emails"}
CalendarListingOps == {"list_calendar_appointments", "search_calendar_appointments"}
EmailByNumberOps == {"get_email_by_number", "reply_to_email_by_number"}

\* the call reached the query step
Queried == last.resp \in {"Listing", "NoneFound"}

\* the instant a formatted timestamp names
TimeOf(text) == text[1] * Day + text[2] * Hour + text[3] * Minute + text[4]

\* the durable ids of the records of a listing
Ids(listing) == {listing[i].id : i \in DOMAIN listing}

\* the folder a listing call read
FolderNamed(path) == CHOOSE f \in AllFolders : f.Path = path

\* two characters that differ in case at most
SameLetter(a, b) ==
    \/ a = b
    \/ {a, b} \in {{"a", "A"}, {"b", "B"}, {"c", "C"}, {"o", "O"}, {"r", "R"}, {"w", "W"},
                  {"e", "E"}, {"s", "S"}, {"t", "T"}, {"u", "U"}, {"y", "Y"}}

\* term occurs in field, case ignored
ContainsIgnoringCase(term, field) ==
    \E off \in 0..(Len(field) - Len(term)) :
        \A i \in 1..Len(term) : SameLetter(term[i], field[off + i])

\* some trimmed term of the expression occurs in some of the fields, case ignored
AnyTermIn(search_term, fields) ==
    LET terms == StrippedTerms(search_term)
    IN \E i \in 1..Len(terms), f \in fields : ContainsIgnoringCase(terms[i], f)

RECURSIVE JoinOr(_)
JoinOr(pieces) ==
    IF Len(pieces) = 1 THEN pieces[1]
    ELSE pieces[1] \o OrSep \o JoinOr(Tail(pieces))

\* the expressions that hold the terms of search_term in another order
Reorderings(search_term) ==
    LET pieces == split(search_term, OrSep)
        n == Len(pieces)
    IN {JoinOr([i \in 1..n |-> pieces[p[i]]]) :
           p \in {q \in [1..n -> 1..n] : \A i, j \in 1..n : q[i] = q[j] => i = j}}

\* C1: the keys of email_cache and of calendar_cache are exactly 1..N, N being the
\* number of records that the most recent query of that kind returned
C1_ContiguousOrdinals ==
    /\ DOMAIN email_cache = 1..Len(email_returned)
    /\ DOMAIN calendar_cache = 1..Len(calendar_returned)

\* a shorter email listing has replaced a longer one, and a calendar listing exists
C1_Witness ==
    /\ last.op \in EmailListingOps /\ Queried
    /\ Len(email_returned) >= 1 /\ last.replaced > Len(email_returned)
    /\ Len(calendar_returned) >= 2

\* C2: a by-number tool answers EmptyListing exactly when no listing of its kind was
\* ever installed; once one was (even an empty one) an ordinal outside 1..N gets
\* OrdinalNotFound
C2_EmptyListingIffNeverListed ==
    /\ last.op \in EmailByNumberOps =>
          /\ (last.resp = "EmptyListing") <=> ~email_listed
          /\ (email_listed /\ last.ord \notin 1..Len(email_returned)) =>
                last.resp = "OrdinalNotFound"
    /\ last.op = "get_appointment_by_number" =>
          /\ (last.resp = "EmptyListing") <=> ~calendar_listed
          /\ (calendar_listed /\ last.ord \notin 1..Len(calendar_returned)) =>
                last.resp = "OrdinalNotFound"

\* C3 as stated: a reply by an ordinal of the listing that was just replaced fails
\* with OrdinalNotFound and creates no reply
C3_StaleOrdinalRejected ==
    (last.op = "reply_to_email_by_number" /\ last.stale) =>
        last.resp = "OrdinalNotFound" /\ last.message = <<>>

\* C3 amended: a reply by an ordinal of the listing that was just replaced is resolved
\* in the new listing alone: outside 1..N of the new listing it fails and creates no
\* reply, inside it replies to the record the new listing holds at that ordinal
C3_StaleOrdinalResolvedInNewListing ==
    (last.op = "reply_to_email_by_number" /\ last.stale) =>
        IF last.ord \in 1..Len(email_returned)
        THEN /\ last.resp \in {"ReplySaved", "ReplySent", "StoreError"}
             /\ last.message # <<>> => last.target = email_returned[last.ord].id
        ELSE /\ last.message = <<>>
             /\ last.resp = IF email_returned = <<>> THEN "EmptyListing"
                            ELSE "OrdinalNotFound"

\* a reply was created by an ordinal of the replaced listing
C3_Witness ==
    /\ last.op = "reply_to_email_by_number" /\ last.stale
    /\ last.message # <<>>

\* C4: an ordinal in 1..N resolves to the record the most recent query returned at
\* that position; a reply fetches the item with that record's id and replies to it,
\* and no reply is made to anything else
C4_ResolvesToListedRecord ==
    /\ (last.op \in EmailByNumberOps /\ last.ord \in 1..Len(email_returned)) =>
          /\ last.resp \notin {"EmptyListing", "OrdinalNotFound"}
          /\ last.fetched \in {"none", email_returned[last.ord].id}
          /\ last.resp \in {"Details", "ReplySaved", "ReplySent"} =>
                /\ last.fetched = email_returned[last.ord].id
                /\ last.target = last.fetched
    /\ (last.op = "get_appointment_by_number" /\ last.ord \in 1..Len(calendar_returned)) =>
          /\ last.resp = "Details"
          /\ last.target = calendar_returned[last.ord].id
    /\ (last.message # <<>> /\ last.op # "compose_email") =>
          /\ last.op = "reply_to_email_by_number"
          /\ last.ord \in 1..Len(email_returned)
          /\ last.target = email_returned[last.ord].id

\* a reply was sent by ordinal 2 of a listing of three or more
C4_Witness ==
    /\ last.op = "reply_to_email_by_number" /\ last.resp = "ReplySent"
    /\ last.ord = 2 /\ Len(email_returned) >= 3

\* C5: a search whose Restrict filter the store rejected returns what the same search
\* returns when the store accepts the filter (the store failing nowhere else)
C5_FallbackSameAsPushDown ==
    (/\ last.op = "search_emails" /\ Queried
     /\ last.pushdown = "rejected" /\ last.abort = None) =>
        email_returned = get_emails_from_folder(FolderNamed(last.folder), last.days,
                                                last.term, last.at, TRUE, FALSE, None)

\* C6: where the manual filter runs, the records a search returns are those of the
\* unfiltered listing of the same window in which some trimmed term occurs, case
\* ignored, in some searchable field; the terms in another order return the same
C6_LocalScanMatch ==
    /\ (last.op = "search_calendar_appointments" /\ Queried) =>
          LET window == get_appointments_from_calendar(DefaultCalendar, last.days,
                                                       NoText, last.at, last.abort)
          IN /\ calendar_returned =
                  SelectSeq(window, LAMBDA r :
                      AnyTermIn(last.term, {r.subject, r.location, r.body}))
             /\ \A other \in Reorderings(last.term) :
                    get_appointments_from_calendar(DefaultCalendar, last.days, other,
                                                   last.at, last.abort)
                       = calendar_returned
    /\ (last.op = "search_emails" /\ Queried /\ last.same) =>
          LET window == get_emails_from_folder(FolderNamed(last.folder), last.days,
                                               NoText, last.at, FALSE, FALSE, last.abort)
          IN /\ email_returned =
                  SelectSeq(window, LAMBDA r :
                      AnyTermIn(last.term, {r.subject, r.sender, r.body}))
             /\ \A other \in Reorderings(last.term) :
                    get_emails_from_folder(FolderNamed(last.folder), last.days, other,
                                           last.at, FALSE, TRUE, last.abort)
                       = email_returned

\* a calendar search for "A OR c" returned two or more records, and dropped others
C6_Witness ==
    /\ last.op = "search_calendar_appointments" /\ Queried
    /\ Len(split(last.term, OrSep)) = 2
    /\ Len(calendar_returned) >= 2
    /\ Len(calendar_returned) <
          Len(get_appointments_from_calendar(DefaultCalendar, last.days, NoText,
                                             last.at, last.abort))

\* the items the loop of list_recent_emails went through
ItemsReached ==
    Reached(Sort(FolderNamed(last.folder).Items, ReceivedTimeOf, TRUE), last.abort)

\* C7: no record of an email listing was received before now - days, and
\* list_recent_emails keeps the item received at that very instant when its loop
\* comes to it
C7_NotBeforeThreshold ==
    (last.op \in EmailListingOps /\ Queried) =>
        /\ \A i \in DOMAIN email_cache :
              TimeOf(email_cache[i].received_time) >= last.at - last.days * Day
        /\ last.op = "list_recent_emails" =>
              \A i \in DOMAIN ItemsReached :
                  ItemsReached[i].ReceivedTime = last.at - last.days * Day
                  => ItemsReached[i].EntryID \in Ids(email_cache)

\* a listing that keeps the item at the threshold and drops the one a second older
C7_Witness ==
    /\ last.op = "list_recent_emails" /\ Queried
    /\ Mail2.ReceivedTime = last.at - last.days * Day
    /\ Mail2.EntryID \in Ids(email_cache)
    /\ Mail3.EntryID \notin Ids(email_cache)

\* C8 as stated: no record of an email listing was received after now
C8_NotAfterNow ==
    (last.op \in EmailListingOps /\ Queried) =>
        \A i \in DOMAIN email_cache : TimeOf(email_cache[i].received_time) <= last.at

\* C8 amended: the window has a lower bound only: every record was received at or
\* after now - days, and list_recent_emails returns the items received after now
\* that its loop comes to
C8_LowerBoundOnly ==
    (last.op \in EmailListingOps /\ Queried) =>
        /\ \A i \in DOMAIN email_cache :
              ~(TimeOf(email_cache[i].received_time) < last.at - last.days * Day)
        /\ last.op = "list_recent_emails" =>
              \A i \in DOMAIN ItemsReached :
                  ItemsReached[i].ReceivedTime > last.at
                  => ItemsReached[i].EntryID \in Ids(email_cache)

\* a listing that holds an item received after now
C8_Witness ==
    /\ last.op = "list_recent_emails" /\ Queried
    /\ \E i \in DOMAIN email_cache : TimeOf(email_cache[i].received_time) > last.at

\* C9: every record of a calendar listing starts inside
\* [today 00:00:00, today + days 23:59:59]; an item without a start is not listed
C9_StartInsideWindow ==
    (last.op \in CalendarListingOps /\ Queried) =>
        \A i \in DOMAIN calendar_cache :
            /\ calendar_cache[i].start_time # NoTime
            /\ TimeOf(calendar_cache[i].start_time) >= last.at - (last.at % Day)
            /\ TimeOf(calendar_cache[i].start_time)
                  <= last.at - (last.at % Day) + last.days * Day + Day - 1

\* C10: a validation error is returned without the store having been touched, and
\* create_calendar_appointment answers a malformed time with the validation error
\* whatever the store does
C10_ValidationBeforeStore ==
    /\ last.resp = "ValidationError" => ~last.connected
    /\ (/\ last.op = "create_calendar_appointment"
        /\ (strptime(last.start_time) = <<>> \/ strptime(last.end_time) = <<>>))
       => last.resp = "ValidationError"

\* C13: after a list/search call that reached the query step, the cache of its kind
\* holds the records that call returned, in their order, and nothing else; a
\* by-number call with an ordinal beyond them resolves to no record, whatever the
\* listings before held
C13_OnlyRecordsOfTheCall ==
    /\ (last.op \in EmailListingOps /\ Queried) =>
          /\ DOMAIN email_cache = 1..Len(email_returned)
          /\ \A i \in DOMAIN email_cache : email_cache[i] = email_returned[i]
    /\ (last.op \in CalendarListingOps /\ Queried) =>
          /\ DOMAIN calendar_cache = 1..Len(calendar_returned)
          /\ \A i \in DOMAIN calendar_cache : calendar_cache[i] = calendar_returned[i]
    /\ (last.op \in EmailByNumberOps /\ last.ord \notin 1..Len(email_returned)) =>
          /\ last.resp \in {"EmptyListing", "OrdinalNotFound"}
          /\ last.target = "none"
    /\ (last.op = "get_appointment_by_number"
        /\ last.ord \notin 1..Len(calendar_returned)) =>
          /\ last.resp \in {"EmptyListing", "OrdinalNotFound"}
          /\ last.target = "none"

\* a calendar search that found nothing has replaced a listing of two or more
C13_Witness ==
    /\ last.op = "search_calendar_appointments" /\ last.resp = "NoneFound"
    /\ last.replaced >= 2
    /\ calendar_cache = <<>>

\* C14: a list/search call during whose query the store raised (on Items or Sort, or
\* while iterating) answers with an error, not with a listing or with "none found"
C14_QueryFailureReported ==
    (last.op \in EmailListingOps \cup CalendarListingOps /\ last.abort # None) =>
        last.resp = "StoreError"

\* the folder without the items that format_email or format_appointment fails on
WithoutFailing(folder) ==
    [folder EXCEPT !.Items =
        SelectSeq(@, LAMBDA item :
            IF item \in AllMail THEN format_email(item) # <<>>
            ELSE format_appointment(item) # <<>>)]

\* C15: an item whose processing fails is skipped and nothing else changes: a query
\* (the store failing nowhere else) reaches the query step, answers with a listing
\* or "none found", and returns what the same query returns on the folder without
\* the failing items, in the same order
C15_FailingItemSkippedOnly ==
    /\ (last.op \in EmailListingOps /\ Queried /\ last.abort = None) =>
          email_returned =
              get_emails_from_folder(WithoutFailing(FolderNamed(last.folder)), last.days,
                                     last.term, last.at, last.pushdown = "accepted",
                                     last.same, None)
    /\ (last.op \in CalendarListingOps /\ Queried /\ last.abort = None) =>
          calendar_returned =
              get_appointments_from_calendar(WithoutFailing(DefaultCalendar), last.days,
                                             last.term, last.at, None)
    /\ (last.op \in EmailListingOps \cup CalendarListingOps /\ last.connected
        /\ last.resp \notin {"StoreError", "FolderNotFound"}) => Queried

\* an inbox listing that holds the items on either side of the one format_email
\* fails on, beside a calendar listing of two or more records from a calendar whose
\* first item in sorted order is one that format_appointment fails on
C15_Witness ==
    /\ last.op = "list_recent_emails" /\ Queried /\ last.abort = None
    /\ {Mail1.EntryID, Mail2.EntryID} \subseteq Ids(email_cache)
    /\ format_email(Mail7) = <<>>
    /\ Len(calendar_returned) >= 2
    /\ format_appointment(Sort(DefaultCalendar.Items, StartOf, FALSE)[1]) = <<>>

\* C16: the records of an email listing run from the newest to the oldest, those of
\* a calendar listing that have a start from the earliest to the latest
C16_ListingOrder ==
    /\ \A i, j \in DOMAIN email_cache :
          i < j => TimeOf(email_cache[i].received_time)
                      >= TimeOf(email_cache[j].received_time)
    /\ \A i, j \in DOMAIN calendar_cache :
          (/\ i < j
           /\ calendar_cache[i].start_time # NoTime
           /\ calendar_cache[j].start_time # NoTime)
          => TimeOf(calendar_cache[i].start_time) <= TimeOf(calendar_cache[j].start_time)

\* an email listing of three records or more received at different times, and a
\* calendar listing with two starts
C16_Witness ==
    /\ Len(email_returned) >= 3
    /\ TimeOf(email_cache[1].received_time) > TimeOf(email_cache[3].received_time)
    /\ \E i, j \in DOMAIN calendar_cache :
          /\ i < j
          /\ calendar_cache[i].start_time # NoTime
          /\ calendar_cache[j].start_time # NoTime
          /\ TimeOf(calendar_cache[i].start_time) < TimeOf(calendar_cache[j].start_time)

\* two names that differ in case at most
SameName(a, b) == Len(a) = Len(b) /\ \A i \in 1..Len(a) : SameLetter(a[i], b[i])

\* the places get_folder_by_name may look in: the subfolders of the inbox, the
\* top-level folders and their subfolders, each with its position
FolderPlaces ==
    {[tier |-> "inbox", root |-> 0, sub |-> i, folder |-> InboxFolders[i]] :
        i \in 1..Len(InboxFolders)}
    \cup {[tier |-> "top", root |-> r, sub |-> 0, folder |-> NamespaceFolders[r]] :
        r \in 1..Len(NamespaceFolders)}
    \cup UNION {{[tier |-> "below", root |-> r, sub |-> i,
                  folder |-> SubFolders(NamespaceFolders[r])[i]] :
                    i \in 1..Len(SubFolders(NamespaceFolders[r]))} :
                r \in 1..Len(NamespaceFolders)}

\* the precedence of the claim: the inbox subfolders, then every top-level folder,
\* then the subfolders of the top-level folders
TieredRank(place) ==
    CASE place.tier = "inbox" -> place.sub
      [] place.tier = "top" -> 100 + place.root
      [] place.tier = "below" -> 200 + 10 * place.root + place.sub

\* the precedence of one pass over the top-level folders: the inbox subfolders,
\* then each top-level folder followed at once by its own subfolders
OnePassRank(place) ==
    CASE place.tier = "inbox" -> place.sub
      [] place.tier = "top" -> 100 + 10 * place.root
      [] place.tier = "below" -> 100 + 10 * place.root + place.sub

\* a list/search call that named a folder and got as far as looking for it
LookedUp ==
    /\ last.op \in EmailListingOps /\ Truthy(last.folder_name)
    /\ last.resp \notin {"ValidationError", "StoreError"}

\* C17 as stated: the folder found is the first one whose name is the requested one,
\* case ignored, among the inbox subfolders, then the top-level folders, then the
\* subfolders of the top-level folders; with no such folder the call reports that
\* the folder was not found
C17_TieredPrecedence ==
    LookedUp =>
        LET hits == {pl \in FolderPlaces : SameName(pl.folder.Name, last.folder_name)}
        IN IF hits = {} THEN last.resp = "FolderNotFound"
           ELSE /\ last.resp # "FolderNotFound"
                /\ \E pl \in hits :
                      /\ last.folder = pl.folder.Path
                      /\ \A other \in hits : TieredRank(pl) <= TieredRank(other)

\* C17 amended: the top-level folders are tried in one pass, each followed at once
\* by its own subfolders, so a subfolder of an earlier top-level folder is found
\* before a later top-level folder of the same name
C17_OnePassPrecedence ==
    LookedUp =>
        LET hits == {pl \in FolderPlaces : SameName(pl.folder.Name, last.folder_name)}
        IN IF hits = {} THEN last.resp = "FolderNotFound"
           ELSE /\ last.resp # "FolderNotFound"
                /\ \E pl \in hits :
                      /\ last.folder = pl.folder.Path
                      /\ \A other \in hits : OnePassRank(pl) <= OnePassRank(other)

\* "old" was found below the first top-level folder although a later top-level
\* folder has that name
C17_Witness ==
    /\ LookedUp
    /\ last.folder = OldFolder.Path
    /\ SameName(OldRoot.Name, last.folder_name)

\* a reply or a new message went out or was saved
Delivered ==
    \/ last.op = "reply_to_email_by_number" /\ last.resp \in {"ReplySaved", "ReplySent"}
    \/ last.op = "compose_email" /\ last.resp \in {"EmailSaved", "EmailSent"}

ByNumberOps == EmailByNumberOps \cup {"get_appointment_by_number"}

\* the call neither connected to the store nor fetched, showed or touched an item
NoStoreAccess ==
    /\ ~last.connected
    /\ last.fetched = "none"
    /\ last.message = <<>>

\* C19: a by-number call that answers that nothing was listed yet, or that the
\* ordinal is not in the listing, has not connected to the store, fetched no item by
\* its id and created no reply; get_appointment_by_number never connects or fetches
C19_ResolveWithoutStore ==
    /\ (last.op \in ByNumberOps /\ last.resp \in {"EmptyListing", "OrdinalNotFound"}) =>
          NoStoreAccess /\ last.target = "none"
    /\ last.op = "get_appointment_by_number" => NoStoreAccess

\* a reply to an ordinal beyond a listing of at least one email, while appointments
\* are listed too
C19_Witness ==
    /\ last.op = "reply_to_email_by_number" /\ last.resp = "OrdinalNotFound"
    /\ email_cache # <<>>
    /\ calendar_cache # <<>>

\* C20: format_email and format_appointment raise on no item of the folder a listing
\* call read, and no record they returned holds None where the item has no value:
\* not for the conversation id, not for the time of receipt, not for start or end
C20_DefaultsForAbsentFields ==
    /\ (last.op \in EmailListingOps /\ Queried) =>
          /\ \A i \in DOMAIN FolderNamed(last.folder).Items :
                format_email(FolderNamed(last.folder).Items[i]) # <<>>
          /\ \A i \in DOMAIN email_returned :
                /\ email_returned[i].conversation_id # None
                /\ email_returned[i].received_time # NoTime
    /\ (last.op \in CalendarListingOps /\ Queried) =>
          /\ \A i \in DOMAIN DefaultCalendar.Items :
                format_appointment(DefaultCalendar.Items[i]) # <<>>
          /\ \A i \in DOMAIN calendar_returned :
                /\ calendar_returned[i].start_time # NoTime
                /\ calendar_returned[i].end_time # NoTime

\* the texts a tool returns: an error message, a listing, the details of a record
\* or a confirmation
TextResponses ==
    {"ValidationError", "StoreError", "FolderNotFound", "EmptyListing",
     "OrdinalNotFound", "Listing", "NoneFound", "Details", "Folders",
     "ReplySaved", "ReplySent", "EmailSaved", "EmailSent", "Created"}

\* C21: every tool call ends with a text for the caller, whatever the store does:
\* an unreachable store, an item that cannot be fetched again or a Save that the
\* store rejects is answered with an error text, and a folder that does not exist
\* with the text that says so; nothing is raised to the caller
C21_EveryCallAnswersWithText ==
    last.op # "none" =>
        /\ last.resp \in TextResponses
        /\ (last.op \in EmailListingOps /\ Truthy(last.folder_name)
            /\ last.connected /\ last.folder = "none") =>
              last.resp \in {"FolderNotFound", "StoreError"}
        /\ (last.op \in EmailByNumberOps /\ last.fetched # "none"
            /\ last.target = "none") => last.resp = "StoreError"
        /\ (last.op = "create_calendar_appointment" /\ last.appointment # "saved") =>
              last.resp \in {"StoreError", "ValidationError"}

\* a reply to an email that the store does not hand out again, answered with an
\* error text
C21_Witness ==
    /\ last.op = "reply_to_email_by_number"
    /\ last.fetched # "none" /\ last.target = "none"
    /\ last.resp = "StoreError"

\* C25: create_calendar_appointment that answers with the invalid-date-format error
\* has saved no appointment, also when only end_time is malformed; an appointment
\* is saved only by the call that answers "created successfully"
C25_NothingSavedOnBadDate ==
    last.op = "create_calendar_appointment" =>
        /\ last.resp = "ValidationError" => last.appointment # "saved"
        /\ last.appointment = "saved" <=> last.resp = "Created"
        /\ last.resp = "Created" =>
              /\ strptime(last.start_time) # <<>>
              /\ strptime(last.end_time) # <<>>

\* start_time is a date and end_time is not: the error is the invalid-date one
C25_Witness ==
    /\ last.op = "create_calendar_appointment" /\ last.resp = "ValidationError"
    /\ strptime(last.start_time) # <<>>
    /\ strptime(last.end_time) = <<>>

ListingOps == EmailListingOps \cup CalendarListingOps

\* C23: a list or search call that is turned down before its query (days out of
\* range, no search term, the store not reachable, no folder of the name) leaves
\* email_cache and calendar_cache as they were
C23_RejectedCallKeepsListings ==
    [][(/\ last'.op \in ListingOps
        /\ last'.resp \in {"ValidationError", "StoreError", "FolderNotFound"})
       => /\ email_cache' = email_cache
          /\ calendar_cache' = calendar_cache]_vars

\* a search in a folder that does not exist, with both listings in place
C23_Witness ==
    /\ last.op = "search_emails" /\ last.resp = "FolderNotFound"
    /\ email_cache # <<>>
    /\ calendar_cache # <<>>

\* C24: an email list or search call leaves calendar_cache as it was, a calendar
\* list or search call leaves email_cache as it was, and every other tool leaves
\* both as they were, whatever it answers
C24_ListingsIndependent ==
    [][/\ last'.op \in EmailListingOps => calendar_cache' = calendar_cache
       /\ last'.op \in CalendarListingOps => email_cache' = email_cache
       /\ last'.op \notin ListingOps =>
             /\ email_cache' = email_cache
             /\ calendar_cache' = calendar_cache]_vars

\* a calendar listing of two or more records was installed beside an email listing
C24_Witness ==
    /\ last.op = "list_calendar_appointments" /\ Queried
    /\ Len(calendar_returned) >= 2
    /\ calendar_cache = CacheAll(<<>>, calendar_returned)
    /\ Cardinality(DOMAIN email_cache) >= 2

\* one of the terms of the search expression is empty once stripped
HasEmptyTerm(search_term) ==
    \E i \in DOMAIN split(search_term, OrSep) : strip(split(search_term, OrSep)[i]) = <<>>

\* C26: a search whose expression holds an empty term and that the store did not
\* filter returns what the listing of the same window returns without any search
\* term, for emails and for appointments
C26_EmptyTermMatchesAll ==
    /\ (/\ last.op = "search_emails" /\ Queried
        /\ HasEmptyTerm(last.term) /\ last.pushdown # "accepted") =>
          email_returned =
              get_emails_from_folder(FolderNamed(last.folder), last.days, NoText,
                                     last.at, FALSE, FALSE, last.abort)
    /\ (/\ last.op = "search_calendar_appointments" /\ Queried
        /\ HasEmptyTerm(last.term)) =>
          calendar_returned =
              get_appointments_from_calendar(DefaultCalendar, last.days, NoText,
                                             last.at, last.abort)

\* "q OR " was scanned for in the items of the inbox one by one and found three
\* emails or more, none of which holds "q"
C26_Witness ==
    /\ last.op = "search_emails" /\ Queried /\ last.same
    /\ last.term = EmptyTail
    /\ Len(email_returned) >= 3
    /\ \A i \in DOMAIN email_returned :
          ~ContainsIgnoringCase(<<"q">>, email_returned[i].subject \o
                                         email_returned[i].sender \o
                                         email_returned[i].body)

\* the text of a recipient as the claim has it: the name, followed by the address
\* in angle brackets when there is one
NameAndAddress(recipient) ==
    IF "Address" \in recipient.Lacks \/ recipient.Address = NoText
    THEN recipient.Name
    ELSE recipient.Name \o <<" ", "<">> \o recipient.Address \o <<">">>

\* C22: the recipients of each email record and the attendees of each appointment
\* record are those of the item, one text each in the same order: "Name <Address>"
\* for a recipient with an address, "Name" alone for one whose address is missing,
\* empty or cannot be read
C22_NameAloneWithoutAddress ==
    /\ \A k \in DOMAIN email_cache :
          LET item == CHOOSE m \in AllMail : m.EntryID = email_cache[k].id
          IN email_cache[k].recipients =
                [i \in 1..Len(item.Recipients) |-> NameAndAddress(item.Recipients[i])]
    /\ \A k \in DOMAIN calendar_cache :
          LET item == CHOOSE a \in AllAppointments : a.EntryID = calendar_cache[k].id
          IN calendar_cache[k].attendees =
                [i \in 1..Len(item.Recipients) |-> NameAndAddress(item.Recipients[i])]

\* C11: what a statement of get_email_by_number reads in email_cache while one
\* listing call runs beside it is the complete listing from before that call or the
\* complete listing that call installs, never a state in between
C11_ReaderSeesCompleteListing ==
    \A r \in Requests :
        (running[r].op = "get_email_by_number" /\ running[r].overlap) =>
            running[r].seen \in {running[r].old, running[r].new}

\* C11 amended: nothing serialises the calls: what such a read finds is the complete
\* listing from before the listing call or the first n records of the listing the
\* call installs, for any n from 0 to its length
C11_ReaderSeesPreviousOrPrefix ==
    \A r \in Requests :
        (running[r].op = "get_email_by_number" /\ running[r].overlap) =>
            \/ running[r].seen = running[r].old
            \/ \E n \in 0..Len(running[r].new) :
                  running[r].seen = SubSeq(running[r].new, 1, n)

\* a read found a listing of three records with its first record alone
C11_Witness ==
    \E r \in Requests :
        /\ running[r].op = "get_email_by_number" /\ running[r].overlap
        /\ Len(running[r].new) = 3 /\ Len(running[r].seen) = 1
        /\ running[r].seen # running[r].old

\* the two listing calls overlapped each other, no third, and have run to their end
BothDone ==
    \A r \in Requests :
        /\ running[r].op \in {"list_recent_emails", "search_emails"}
        /\ running[r].pc = "done" /\ running[r].resp \in {"Listing", "NoneFound"}
        /\ running[r].others = 1

\* C12: once two listing calls that overlapped each other (and no third) have both
\* run to their end, email_cache is the complete result of one of the two
C12_OneLiveListing ==
    BothDone => \E r \in Requests : email_cache = CacheAll(<<>>, running[r].emails)

\* C12 amended: nothing serialises the calls: what remains holds at each ordinal the
\* record that one of the two calls returned at that ordinal, and may hold records
\* of both or lack an ordinal below its largest
C12_EachOrdinalFromOneOfTheTwo ==
    BothDone =>
        \A k \in DOMAIN email_cache :
            \E r \in Requests :
                /\ k \in 1..Len(running[r].emails)
                /\ email_cache[k] = running[r].emails[k]

\* what remains holds a record of each of the two calls
C12_Witness ==
    /\ BothDone
    /\ \E j, k \in DOMAIN email_cache :
          /\ k \in 1..Len(running[1].emails) /\ email_cache[k] = running[1].emails[k]
          /\ ~(k \in 1..Len(running[2].emails) /\ email_cache[k] = running[2].emails[k])
          /\ j \in 1..Len(running[2].emails) /\ email_cache[j] = running[2].emails[j]
          /\ ~(j \in 1..Len(running[1].emails) /\ email_cache[j] = running[1].emails[j])

====
